---- MODULE Spec2Model ----
(***************************************************************************)
(* Model of src/src/1b-scenarios.py: run_model_1b (one optimisation model  *)
(* per scenario, built for the external solver) and the __main__ batch     *)
(* loop that loads the inputs, runs every scenario and prints the summary. *)
(*                                                                         *)
(* Numbers are integers.  The day is scaled from 24 hours to NHours hours  *)
(* (the model has no coupling between hours), and the solver searches the  *)
(* integer points of Grid instead of the reals.  Python's 0-based          *)
(* profile[t] is the TLA+ sequence element profile[t + 1].  An absent      *)
(* value (None, no model, no solution) is the empty sequence <<>>, a       *)
(* present value v is <<v>>.                                               *)
(***************************************************************************)
EXTENDS Integers, Sequences, FiniteSets, TLC

VARIABLES
    appl_params,        \* json of appliance_params.json
    der_production,     \* json of DER_production.json
    usage_preference,   \* json of usage_preferences.json
    scenarios,          \* json of scenarios.json
    shared,             \* <<>> or <<[Lmin_t, Lmax_t, Pt_PV, Lt_ref]>> of __main__
    results_summary,    \* the list of summary rows
    idx,                \* position of the for loop in scenarios (1-based)
    pc,                 \* control position
    args,               \* <<>> or <<arguments of the running run_model_1b>>
    model,              \* <<>> or <<the gp.Model built>>
    status,             \* model.status after optimize, "" before
    X,                  \* <<>> (no solution) or <<sequence of per-hour values>>
    ObjVal,             \* <<>> or <<objective value>>
    traj,               \* <<>> or <<the five extracted trajectories>>
    result,             \* <<>> or <<dict returned by run_model_1b>>
    solved,             \* history: [pos, status] of every model.optimize(), in order
    out,                \* messages printed, in order
    err                 \* <<>> or <<the uncaught exception>>

vars == <<appl_params, der_production, usage_preference, scenarios, shared,
          results_summary, idx, pc, args, model, status, X, ObjVal, traj,
          result, solved, out, err>>

(***************************************************************************)
(* Bounds of the model and constants of the program.                       *)
(***************************************************************************)
NHours == 2
MaxScenarios == 3
GridMax == 2

alpha == 10
Inf == 1000
lb == 0
ub == Inf

HOURS == 0 .. (NHours - 1)
Grid == (-1) .. GridMax

OPTIMAL == "OPTIMAL"
INFEASIBLE == "INFEASIBLE"
UNBOUNDED == "UNBOUNDED"
INF_OR_UNBD == "INF_OR_UNBD"

Flat(n, v) == [i \in 1 .. n |-> v]
At(profile, t) == profile[t + 1]
HasIndex(profile, t) == (t + 1) \in DOMAIN profile

(***************************************************************************)
(* run_model_1b, lines 31-55: the variables, constraints and objective.    *)
(***************************************************************************)
Lt_bounds(a) == <<a.Lmin_t, a.Lmax_t>>
ut_bounds(a) == <<lb, ub>>
\* Variant: curtailment is not allowed.
ct_bounds_nocurtail(a) == <<lb, lb>>
ct_bounds(a) == <<lb, ub>>
\* Variant: the import variable takes the export cap.
gt_imp_bounds_swapped(a) == <<lb, a.max_export_kW>>
gt_imp_bounds(a) == <<lb, a.max_import_kW>>
gt_exp_bounds(a) == <<lb, a.max_export_kW>>
HCt_bounds(a) == <<-ub, ub>>
Dt_bounds(a) == <<lb, ub>>

\* The coefficients of the four constraints of hour t.
ConstrRow(a, t) ==
    [ PV_allocation |-> At(a.Pt_PV, t),
      cost_imp      |-> At(a.pt, t) + a.tau_imp,
      cost_exp      |-> At(a.pt, t) - a.tau_exp,
      Lt_ref        |-> At(a.Lt_ref, t) ]

\* The first hour whose constraints cannot be built: a profile is too short.
ShortProfile(a) ==
    \E t \in HOURS : ~ HasIndex(a.Pt_PV, t) \/ ~ HasIndex(a.pt, t)
                     \/ ~ HasIndex(a.Lt_ref, t)

NewModel(a) ==
    [ Lt     |-> Lt_bounds(a),
      ut     |-> ut_bounds(a),
      ct     |-> ct_bounds(a),
      gt_imp |-> gt_imp_bounds(a),
      gt_exp |-> gt_exp_bounds(a),
      HCt    |-> HCt_bounds(a),
      Dt     |-> Dt_bounds(a),
      rows   |-> [t \in HOURS |-> ConstrRow(a, t)],
      wD     |-> a.alpha ]

(***************************************************************************)
(* model.optimize(), line 56: the external solver, on the model it is      *)
(* given.  A point of hour t gives the seven variables of that hour.       *)
(***************************************************************************)
Dom(b) == {v \in Grid : b[1] <= v /\ v <= b[2]}
InBounds(b, v) == b[1] <= v /\ v <= b[2]

PV_allocation(row, p) == p.u + p.c = row.PV_allocation
Energy_balance(row, p) == p.u + p.g_imp = p.L + p.g_exp
Hourly_cost(row, p) == row.cost_imp * p.g_imp - row.cost_exp * p.g_exp = p.HC
Discomfort(row, p) == (row.Lt_ref - p.L) * (row.Lt_ref - p.L) = p.D

Points(m, t) ==
    { [ L |-> l, u |-> u, c |-> c, g_imp |-> gi, g_exp |-> ge,
        HC |-> m.rows[t].cost_imp * gi - m.rows[t].cost_exp * ge,
        D  |-> (m.rows[t].Lt_ref - l) * (m.rows[t].Lt_ref - l) ] :
      l \in Dom(m.Lt), u \in Dom(m.ut), c \in Dom(m.ct),
      gi \in Dom(m.gt_imp), ge \in Dom(m.gt_exp) }

Feasible(m, t) ==
    { p \in Points(m, t) :
        /\ InBounds(m.HCt, p.HC) /\ InBounds(m.Dt, p.D)
        /\ PV_allocation(m.rows[t], p)
        /\ Energy_balance(m.rows[t], p)
        /\ Hourly_cost(m.rows[t], p)
        /\ Discomfort(m.rows[t], p) }

HourObjective(m, p) == m.wD * p.D + p.HC

Optimal(m, t) ==
    { p \in Feasible(m, t) :
        \A q \in Feasible(m, t) : HourObjective(m, p) <= HourObjective(m, q) }

IsFeasible(m) == \A t \in HOURS : Feasible(m, t) # {}

\* Import and export can grow together without limit and that pays.
HasImprovingRay(m) ==
    \E t \in HOURS : /\ m.gt_imp[2] = Inf /\ m.gt_exp[2] = Inf
                     /\ m.rows[t].cost_imp - m.rows[t].cost_exp < 0

RECURSIVE Assignments(_, _)
\* All sequences of one optimal point per hour, for hours 0 .. n-1.
Assignments(m, n) ==
    IF n = 0 THEN {<<>>}
    ELSE {Append(s, p) : s \in Assignments(m, n - 1), p \in Optimal(m, n - 1)}

RECURSIVE SumObjective(_, _, _)
SumObjective(m, x, n) ==
    IF n = 0 THEN 0
    ELSE SumObjective(m, x, n - 1) + HourObjective(m, x[n])

\* What the solver can answer: a status, and a solution with its objective
\* when it has one.
Outcomes(m) ==
    IF ~ IsFeasible(m)
    THEN {[status |-> s, X |-> <<>>, ObjVal |-> <<>>] : s \in {INFEASIBLE, INF_OR_UNBD}}
    ELSE IF HasImprovingRay(m)
    THEN {[status |-> s, X |-> <<>>, ObjVal |-> <<>>] : s \in {UNBOUNDED, INF_OR_UNBD}}
    ELSE {[status |-> OPTIMAL, X |-> <<x>>, ObjVal |-> <<SumObjective(m, x, NHours)>>] :
            x \in Assignments(m, NHours)}

(***************************************************************************)
(* The steps of run_model_1b.                                              *)
(***************************************************************************)
\* Variant: the loop catches the exception and goes on.
PropagateCaught(e) == [pc |-> "loop", err |-> <<e>>]
\* An exception no handler catches ends the process.
Propagate(e) == [pc |-> "crashed", err |-> <<e>>]

\* Lines 31-55.  Pt_PV[t], pt[t] and Lt_ref[t] raise IndexError on a profile
\* shorter than the day.
BuildModel ==
    /\ pc = "build"
    /\ IF ShortProfile(args[1])
       THEN /\ pc' = Propagate("IndexError").pc
            /\ err' = Propagate("IndexError").err
            /\ model' = <<>>
       ELSE /\ pc' = "optimize"
            /\ model' = <<NewModel(args[1])>>
            /\ err' = err
    /\ UNCHANGED <<appl_params, der_production, usage_preference, scenarios,
                   shared, results_summary, idx, args, status, X, ObjVal, traj,
                   result, solved, out>>

\* Line 56.
Optimize ==
    /\ pc = "optimize"
    /\ \E o \in Outcomes(model[1]) :
          /\ status' = o.status
          /\ X' = o.X
          /\ ObjVal' = o.ObjVal
          /\ solved' = Append(solved, [pos |-> idx, status |-> o.status])
    /\ pc' = "extract"
    /\ UNCHANGED <<appl_params, der_production, usage_preference, scenarios,
                   shared, results_summary, idx, args, model, traj, result,
                   out, err>>

StatusMessage(s) ==
    IF s = OPTIMAL THEN "successful"
    ELSE IF s = INFEASIBLE THEN "infeasible"
    ELSE IF s = UNBOUNDED THEN "unbounded"
    ELSE "ended with status"

Trajectories(x) ==
    [ Lt     |-> [t \in HOURS |-> At(x, t).L],
      ut     |-> [t \in HOURS |-> At(x, t).u],
      ct     |-> [t \in HOURS |-> At(x, t).c],
      gt_imp |-> [t \in HOURS |-> At(x, t).g_imp],
      gt_exp |-> [t \in HOURS |-> At(x, t).g_exp] ]

\* Lines 58-71: the status message, then the .X of every variable, which
\* raises AttributeError when the solver holds no solution.
Extract ==
    /\ pc = "extract"
    /\ out' = Append(out, StatusMessage(status))
    /\ IF X = <<>>
       THEN /\ pc' = Propagate("AttributeError").pc
            /\ err' = Propagate("AttributeError").err
            /\ traj' = <<>>
       ELSE /\ pc' = "plot"
            /\ traj' = <<Trajectories(X[1])>>
            /\ err' = err
    /\ UNCHANGED <<appl_params, der_production, usage_preference, scenarios,
                   shared, results_summary, idx, args, model, status, X, ObjVal,
                   result, solved>>

\* Lines 73-113: plotting a profile against HOURS raises ValueError unless
\* the profile has one entry per hour.
PlotFails(a) ==
    \/ Len(a.Pt_PV) # NHours
    \/ Len(a.Lt_ref) # NHours
    \/ Len(a.pt) # NHours

Plot ==
    /\ pc = "plot"
    /\ IF PlotFails(args[1])
       THEN /\ pc' = Propagate("ValueError").pc
            /\ err' = Propagate("ValueError").err
       ELSE /\ pc' = "return"
            /\ err' = err
    /\ UNCHANGED <<appl_params, der_production, usage_preference, scenarios,
                   shared, results_summary, idx, args, model, status, X, ObjVal,
                   traj, result, solved, out>>

Objective(s, v) == IF s = OPTIMAL THEN v ELSE <<>>

\* Lines 115-122.
Return ==
    /\ pc = "return"
    /\ result' = <<[ Lt |-> traj[1].Lt, ut |-> traj[1].ut, ct |-> traj[1].ct,
                     gt_imp |-> traj[1].gt_imp, gt_exp |-> traj[1].gt_exp,
                     objective |-> Objective(status, ObjVal) ]>>
    /\ pc' = "returned"
    /\ UNCHANGED <<appl_params, der_production, usage_preference, scenarios,
                   shared, results_summary, idx, args, model, status, X, ObjVal,
                   traj, solved, out, err>>

(***************************************************************************)
(* __main__, lines 126-172.                                                *)
(***************************************************************************)
ScenarioKeys ==
    {"scenario", "energy_price_DKK_per_kWh", "max_import_kW", "max_export_kW",
     "import_tariff_DKK_kWh", "export_tariff_DKK_kWh"}

\* Lines 140-142 raise KeyError when a field is absent.
LoadFails ==
    \/ "max_load_kWh_per_hour" \notin DOMAIN appl_params.load[1]
    \/ "hourly_profile_ratio" \notin DOMAIN der_production[1]
    \/ "hourly_profile_ratio" \notin DOMAIN usage_preference[1].load_preferences[1]

\* Lines 128-144.
Load ==
    /\ pc = "load"
    /\ IF LoadFails
       THEN /\ pc' = Propagate("KeyError").pc
            /\ err' = Propagate("KeyError").err
            /\ shared' = shared
       ELSE /\ shared' = <<[ Lmin_t |-> 0,
                             Lmax_t |-> appl_params.load[1].max_load_kWh_per_hour,
                             Pt_PV  |-> der_production[1].hourly_profile_ratio,
                             Lt_ref |-> usage_preference[1].load_preferences[1].hourly_profile_ratio ]>>
            /\ pc' = "loop"
            /\ err' = err
    /\ UNCHANGED <<appl_params, der_production, usage_preference, scenarios,
                   results_summary, idx, args, model, status, X, ObjVal, traj,
                   result, solved, out>>

\* Lines 148-160: the arguments of the call for scenario sc.
CallArgs(sc, sh) ==
    [ scenario      |-> sc.scenario,
      Lmin_t        |-> sh.Lmin_t,
      Lmax_t        |-> sh.Lmax_t,
      Pt_PV         |-> sh.Pt_PV,
      pt            |-> sc.energy_price_DKK_per_kWh,
      Lt_ref        |-> sh.Lt_ref,
      max_import_kW |-> sc.max_import_kW,
      max_export_kW |-> sc.max_export_kW,
      tau_imp       |-> sc.import_tariff_DKK_kWh,
      tau_exp       |-> sc.export_tariff_DKK_kWh,
      alpha         |-> alpha ]

\* Lines 146-160: the next scenario of the list, or the end of the loop.
LoopNext ==
    /\ pc = "loop"
    /\ IF idx > Len(scenarios)
       THEN /\ pc' = "report"
            /\ UNCHANGED <<args, out, err>>
       ELSE IF ScenarioKeys \subseteq DOMAIN scenarios[idx]
       THEN /\ out' = Append(out, "running")
            /\ args' = <<CallArgs(scenarios[idx], shared[1])>>
            /\ pc' = "build"
            /\ err' = err
       ELSE /\ pc' = Propagate("KeyError").pc
            /\ err' = Propagate("KeyError").err
            /\ UNCHANGED <<args, out>>
    /\ model' = <<>> /\ status' = "" /\ X' = <<>> /\ ObjVal' = <<>>
    /\ traj' = <<>> /\ result' = <<>>
    /\ UNCHANGED <<appl_params, der_production, usage_preference, scenarios,
                   shared, results_summary, idx, solved>>

SummaryRow(sc, r) ==
    [Scenario |-> sc.scenario, Primal_Objective |-> r.objective]

\* Variant: the row is put in front of the list.
PrependRow(rs, row) == <<row>> \o rs
\* Variant: the row keeps the objective of the first run.
AppendRowStale(rs, row) ==
    Append(rs, IF rs = <<>> THEN row
               ELSE [row EXCEPT !.Primal_Objective = rs[1].Primal_Objective])
AppendRow(rs, row) == Append(rs, row)

\* Lines 162-165, and the step of the for loop.
AppendResult ==
    /\ pc = "returned"
    /\ idx \in DOMAIN scenarios
    /\ results_summary' = AppendRow(results_summary, SummaryRow(scenarios[idx], result[1]))
    /\ idx' = idx + 1
    /\ pc' = "loop"
    /\ UNCHANGED <<appl_params, der_production, usage_preference, scenarios,
                   shared, args, model, status, X, ObjVal, traj, result, solved,
                   out, err>>

\* Variant: a single row still counts as no results.
NoResultsOffByOne(rs) == Len(rs) <= 1
NoResults(rs) == rs = <<>>

\* Lines 167-172.
Report ==
    /\ pc = "report"
    /\ out' = Append(out, IF NoResults(results_summary) THEN "No results found"
                          ELSE "RESULTS SUMMARY")
    /\ pc' = "done"
    /\ UNCHANGED <<appl_params, der_production, usage_preference, scenarios,
                   shared, results_summary, idx, args, model, status, X, ObjVal,
                   traj, result, solved, err>>

(***************************************************************************)
(* The inputs of a batch run.                                              *)
(***************************************************************************)
Scenario(id, price, mi, me, ti, te) ==
    [ scenario |-> id, energy_price_DKK_per_kWh |-> price,
      max_import_kW |-> mi, max_export_kW |-> me,
      import_tariff_DKK_kWh |-> ti, export_tariff_DKK_kWh |-> te ]

ScenarioRecords ==
    { Scenario("base", Flat(NHours, 1), 1, 1, 1, 0),
      Scenario("island", Flat(NHours, 1), 0, 0, 1, 0),
      Scenario("negcap", Flat(NHours, 1), -1, 1, 1, 0),
      Scenario("subsidy", Flat(NHours, 1), Inf, Inf, -2, 0),
      Scenario("short", Flat(NHours - 1, 1), 1, 1, 1, 0),
      Scenario("long", Flat(NHours + 1, 1), 1, 1, 1, 0),
      [ scenario |-> "nokey", max_import_kW |-> 1, max_export_kW |-> 1,
        import_tariff_DKK_kWh |-> 1, export_tariff_DKK_kWh |-> 0 ] }

ScenarioLists == UNION {[1 .. n -> ScenarioRecords] : n \in 0 .. MaxScenarios}

ApplianceFiles ==
    { [load |-> <<[max_load_kWh_per_hour |-> 2]>>],
      [load |-> <<[name |-> 0]>>] }

ProductionFiles ==
    { <<[hourly_profile_ratio |-> p]>> :
        p \in {Flat(NHours, 1), Flat(NHours, -1),
               Flat(NHours - 1, 1), Flat(NHours + 1, 1)} }
    \cup { <<[name |-> 0]>> }

PreferenceFiles ==
    { <<[load_preferences |-> <<[hourly_profile_ratio |-> p]>>]>> :
        p \in {Flat(NHours, 2), Flat(NHours - 1, 2)} }
    \cup { <<[load_preferences |-> <<[name |-> 0]>>]>> }

Init ==
    /\ appl_params \in ApplianceFiles
    /\ der_production \in ProductionFiles
    /\ usage_preference \in PreferenceFiles
    /\ scenarios \in ScenarioLists
    /\ shared = <<>>
    /\ results_summary = <<>>
    /\ idx = 1
    /\ pc = "load"
    /\ args = <<>> /\ model = <<>> /\ status = "" /\ X = <<>> /\ ObjVal = <<>>
    /\ traj = <<>> /\ result = <<>>
    /\ solved = <<>>
    /\ out = <<>>
    /\ err = <<>>

Next ==
    \/ Load
    \/ LoopNext
    \/ BuildModel
    \/ Optimize
    \/ Extract
    \/ Plot
    \/ Return
    \/ AppendResult
    \/ Report

Spec == Init /\ [][Next]_vars

(***************************************************************************)
(* One call of run_model_1b on bounded integer arguments.                  *)
(***************************************************************************)
PVValues == {-1, 0, 1}
LoadRefValues == {0, 2}
PriceValues == {0, 1}
LmaxValues == {-1, 0, 1}
ImportCaps == {-1, 0, 1, Inf}
ExportCaps == {0, 1, Inf}
ImportTariffs == {-2, 1}
ExportTariffs == {0, 1}

CallArguments ==
    { [ scenario |-> "call", Lmin_t |-> 0, Lmax_t |-> lmax, Pt_PV |-> pv,
        pt |-> Flat(NHours, price), Lt_ref |-> Flat(NHours, ref),
        max_import_kW |-> mi, max_export_kW |-> me,
        tau_imp |-> ti, tau_exp |-> te, alpha |-> alpha ] :
      lmax \in LmaxValues, pv \in [1 .. NHours -> PVValues],
      price \in PriceValues, ref \in LoadRefValues,
      mi \in ImportCaps, me \in ExportCaps,
      ti \in ImportTariffs, te \in ExportTariffs }

InitCall ==
    /\ appl_params = [load |-> <<[name |-> 0]>>]
    /\ der_production = <<[name |-> 0]>>
    /\ usage_preference = <<[load_preferences |-> <<[name |-> 0]>>]>>
    /\ scenarios = <<>>
    /\ shared = <<>>
    /\ results_summary = <<>>
    /\ idx = 1
    /\ pc = "build"
    /\ \E a \in CallArguments : args = <<a>>
    /\ model = <<>> /\ status = "" /\ X = <<>> /\ ObjVal = <<>>
    /\ traj = <<>> /\ result = <<>>
    /\ solved = <<>>
    /\ out = <<>>
    /\ err = <<>>

NextCall ==
    \/ BuildModel
    \/ Optimize
    \/ Extract
    \/ Plot
    \/ Return

SpecCall == InitCall /\ [][NextCall]_vars

(***************************************************************************)
(* Vocabulary of the properties.                                           *)
(***************************************************************************)
Terminal == pc \in {"done", "crashed"}

NonOptimal == {INFEASIBLE, UNBOUNDED, INF_OR_UNBD}

\* Every field is present and every profile has one entry per hour.
WellFormedShared ==
    /\ ~ LoadFails
    /\ Len(der_production[1].hourly_profile_ratio) = NHours
    /\ Len(usage_preference[1].load_preferences[1].hourly_profile_ratio) = NHours

WellFormedScenario(sc) ==
    /\ ScenarioKeys \subseteq DOMAIN sc
    /\ Len(sc.energy_price_DKK_per_kWh) = NHours

WellFormedInput ==
    /\ WellFormedShared
    /\ \A k \in DOMAIN scenarios : WellFormedScenario(scenarios[k])

\* How many times the scenario at position k went to the solver.
TimesSolved(k) == Cardinality({i \in DOMAIN solved : solved[i].pos = k})

AllSolvedOptimal == \A i \in DOMAIN solved : solved[i].status = OPTIMAL

Printed(msg) == \E i \in DOMAIN out : out[i] = msg

(***************************************************************************)
(* C1: a solve that ends infeasible or unbounded raises nothing, extracts  *)
(* no trajectory and returns a result whose objective is None.             *)
(***************************************************************************)
C1_NonOptimalReturnsNormally ==
    (status \in {INFEASIBLE, UNBOUNDED} /\ pc # "extract")
        => /\ err = <<>>
           /\ traj = <<>>
           /\ (pc = "returned" => result[1].objective = <<>>)

(***************************************************************************)
(* C2: when a scenario of the batch ends infeasible, unbounded or with an  *)
(* unknown status, the finished run has a row with an absent objective for *)
(* it and a row for every scenario of the list.                            *)
(***************************************************************************)
C2_BatchContinuesAfterNonOptimal ==
    (Terminal /\ WellFormedInput)
        => \A i \in DOMAIN solved :
              solved[i].status \in NonOptimal
                 => /\ Len(results_summary) = Len(scenarios)
                    /\ results_summary[solved[i].pos].Primal_Objective = <<>>

(***************************************************************************)
(* C3: the summary rows carry the scenario ids in the order of the list,   *)
(* and a run over well-formed inputs in which every solve is optimal ends  *)
(* with exactly one row per scenario.                                      *)
(***************************************************************************)
C3_SummaryInInputOrder ==
    /\ Len(results_summary) <= Len(scenarios)
    /\ \A i \in DOMAIN results_summary :
          results_summary[i].Scenario = scenarios[i].scenario
    /\ (Terminal /\ WellFormedInput /\ AllSolvedOptimal)
          => /\ pc = "done"
             /\ Len(results_summary) = Len(scenarios)
             /\ Printed("RESULTS SUMMARY") = (scenarios # <<>>)

C3_Witness ==
    /\ pc = "done"
    /\ Len(results_summary) = MaxScenarios
    /\ results_summary[1].Scenario # results_summary[2].Scenario

(***************************************************************************)
(* C4: with an empty scenario list the run ends with the no-results        *)
(* message, no solve and no row; and the no-results message is printed     *)
(* only when the summary is empty, the table only when it is not.          *)
(***************************************************************************)
C4_EmptyListNoResults ==
    /\ (Terminal /\ WellFormedShared /\ scenarios = <<>>)
          => /\ pc = "done"
             /\ out = <<"No results found">>
             /\ solved = <<>>
             /\ results_summary = <<>>
    /\ Printed("No results found") => results_summary = <<>>
    /\ Printed("RESULTS SUMMARY") => results_summary # <<>>

C4_Witness ==
    /\ pc = "done"
    /\ scenarios = <<>>
    /\ Printed("No results found")

(***************************************************************************)
(* C5: with a field absent or a profile that has not one entry per hour,   *)
(* no scenario is solved and no summary row is appended.                   *)
(***************************************************************************)
C5_MalformedInputFailsFast ==
    ~ WellFormedInput => (solved = <<>> /\ results_summary = <<>>)

(***************************************************************************)
(* C6: a result returned with optimal status satisfies, in every hour, the *)
(* PV allocation and the energy balance and keeps every variable within    *)
(* its bounds.                                                             *)
(***************************************************************************)
C6_OptimalResultSatisfiesConstraints ==
    (pc = "returned" /\ status = OPTIMAL)
        => \A t \in HOURS :
              LET r == result[1]
                  a == args[1]
              IN  /\ r.ut[t] + r.ct[t] = At(a.Pt_PV, t)
                  /\ r.ut[t] + r.gt_imp[t] = r.Lt[t] + r.gt_exp[t]
                  /\ a.Lmin_t <= r.Lt[t] /\ r.Lt[t] <= a.Lmax_t
                  /\ 0 <= r.gt_imp[t] /\ r.gt_imp[t] <= a.max_import_kW
                  /\ 0 <= r.gt_exp[t] /\ r.gt_exp[t] <= a.max_export_kW
                  /\ r.ut[t] >= 0 /\ r.ct[t] >= 0

C6_Witness ==
    /\ pc = "returned"
    /\ status = OPTIMAL
    /\ \E t \in HOURS :
          /\ result[1].gt_imp[t] > 0
          /\ result[1].gt_imp[t] = args[1].max_import_kW
    /\ \E t \in HOURS : result[1].ct[t] > 0

(***************************************************************************)
(* C7: when the run has ended, every scenario of the list has been         *)
(* submitted to the solver exactly once.                                   *)
(***************************************************************************)
C7_EachScenarioSolvedOnce ==
    (Terminal /\ WellFormedInput)
        => \A k \in DOMAIN scenarios : TimesSolved(k) = 1

(***************************************************************************)
(* C8: the shared profiles and the scenario records never change once      *)
(* loaded, a row of the summary never changes once appended, and the       *)
(* objective of every row, when it is appended, is the optimum of the      *)
(* model of that row's own scenario and the loaded profiles.               *)
(***************************************************************************)
LoadedProfiles ==
    [ Lmin_t |-> 0,
      Lmax_t |-> appl_params.load[1].max_load_kWh_per_hour,
      Pt_PV  |-> der_production[1].hourly_profile_ratio,
      Lt_ref |-> usage_preference[1].load_preferences[1].hourly_profile_ratio ]

OwnObjective(sc) ==
    LET m == NewModel([ scenario |-> sc.scenario,
                        Lmin_t |-> LoadedProfiles.Lmin_t,
                        Lmax_t |-> LoadedProfiles.Lmax_t,
                        Pt_PV |-> LoadedProfiles.Pt_PV,
                        pt |-> sc.energy_price_DKK_per_kWh,
                        Lt_ref |-> LoadedProfiles.Lt_ref,
                        max_import_kW |-> sc.max_import_kW,
                        max_export_kW |-> sc.max_export_kW,
                        tau_imp |-> sc.import_tariff_DKK_kWh,
                        tau_exp |-> sc.export_tariff_DKK_kWh,
                        alpha |-> alpha ])
    IN  {o.ObjVal : o \in {q \in Outcomes(m) : q.status = OPTIMAL}}

\* The row just appended is the last one, at the head of the loop.
LastRowDependsOnOwnScenario ==
    /\ shared # <<>> => shared[1] = LoadedProfiles
    /\ (pc = "loop" /\ results_summary # <<>>)
          => OwnObjective(scenarios[Len(results_summary)])
               = {results_summary[Len(results_summary)].Primal_Objective}

InputsAndRowsKept ==
    /\ scenarios' = scenarios
    /\ appl_params' = appl_params
    /\ der_production' = der_production
    /\ usage_preference' = usage_preference
    /\ (shared # <<>> => shared' = shared)
    /\ \A i \in DOMAIN results_summary :
          i \in DOMAIN results_summary' /\ results_summary'[i] = results_summary[i]
    /\ Len(results_summary') <= Len(results_summary) + 1
    /\ (results_summary' # results_summary => pc' = "loop")

NonNegativeInput(a) ==
    /\ \A t \in HOURS : At(a.Pt_PV, t) >= 0
    /\ a.Lmin_t = 0 /\ a.Lmax_t >= 0
    /\ a.max_import_kW >= 0 /\ a.max_export_kW >= 0

ZeroPoint(a, t) ==
    [ L |-> 0, u |-> 0, c |-> At(a.Pt_PV, t), g_imp |-> 0, g_exp |-> 0,
      HC |-> 0, D |-> At(a.Lt_ref, t) * At(a.Lt_ref, t) ]

\* C9: for non-negative input the zero point is feasible in every hour and
\* the solver does not answer INFEASIBLE.
C9_NonNegativeInputIsFeasible ==
    (model # <<>> /\ NonNegativeInput(args[1]))
        => /\ \A t \in HOURS : ZeroPoint(args[1], t) \in Feasible(model[1], t)
           /\ status # INFEASIBLE

C9_Witness ==
    /\ pc = "returned"
    /\ status = OPTIMAL
    /\ args[1].max_import_kW = 0 /\ args[1].max_export_kW = 0
    /\ \A t \in HOURS : At(args[1].Lt_ref, t) > At(args[1].Pt_PV, t)
    /\ \E t \in HOURS : At(args[1].Pt_PV, t) > 0

(***************************************************************************)
(* C10: once an exception has been raised the run has stopped: the summary *)
(* holds the rows of the scenarios before the failing one only, no later   *)
(* scenario has gone to the solver, and neither the summary table nor the  *)
(* no-results message has been printed.                                    *)
(***************************************************************************)
C10_RaiseAbortsBatch ==
    err # <<>>
        => /\ pc = "crashed"
           /\ Len(results_summary) = idx - 1
           /\ \A i \in DOMAIN solved : solved[i].pos <= idx
           /\ ~ Printed("RESULTS SUMMARY")
           /\ ~ Printed("No results found")

C10_Witness ==
    /\ pc = "crashed"
    /\ err = <<"AttributeError">>
    /\ Len(results_summary) >= 1
    /\ idx < Len(scenarios)

====
